---- MODULE Spec2Model ----
(***************************************************************************)
(* Model of the BOF ("Box of Files") indexing engine, src/src/bof.rs:      *)
(* the index store (forward map + inverse table), the sequential and the   *)
(* concurrent traversal, the sequential and the concurrent reconciler and  *)
(* the save/load glue.                                                     *)
(***************************************************************************)
EXTENDS Integers, Sequences, FiniteSets, TLC

VARIABLES
    fs,        \* the file system: path -> node
    now,       \* the file system clock (source of modification times)
    ignore,    \* config.ignore_paths
    disk,      \* the contents of <output_dir>/index.json
    last,      \* the last command: its kind, its roots and the store it loaded
    steps,     \* the number of commands and file changes so far
    sess,      \* the concurrent command in progress: kind, roots, phase
    shared,    \* the stores behind Arc<Mutex<BOFIndex>>, one per Arc
    lock,      \* the holder of each Arc's mutex
    unit,      \* path -> the work unit (par_iter closure call) for that entry
    frame      \* path -> the index_parallel / update_index_parallel call on it

seqVars == <<fs, now, ignore, disk, last, steps>>
parVars == <<sess, shared, lock, unit, frame>>

-----------------------------------------------------------------------------
(* Bounds of the model.                                                    *)

\* the clock stops here
MaxClock == 2

\* the number of commands and file changes in one run
MaxSteps == 4

-----------------------------------------------------------------------------
(* Paths.  A path is the sequence of its components.                       *)

RootA == <<"a">>
RootB == <<"b">>
RootX == <<"x">>

AllPaths ==
    { RootA, <<"a", "f">>, <<"a", "g">>, <<"a", "d">>, <<"a", "d", "f">>,
      RootB, <<"b", "f">>, RootX }

\* the order in which read_dir returns the names of a directory
EnumOrder == <<"g", "d", "f">>

\* Path::parent
parent(p) == IF Len(p) = 0 THEN <<".">> ELSE SubSeq(p, 1, Len(p) - 1)

\* DirEntry::file_name
file_name(p) == p[Len(p)]

\* Path::to_string_lossy: the components joined by "/"
RECURSIVE to_string(_)
to_string(p) ==
    IF Len(p) = 0 THEN ""
    ELSE to_string(SubSeq(p, 1, Len(p) - 1)) \o "/" \o p[Len(p)]

IsPrefix(p, q) == Len(p) <= Len(q) /\ SubSeq(q, 1, Len(p)) = p

\* the elements of a sequence
Range0(f) == {f[i] : i \in DOMAIN f}

-----------------------------------------------------------------------------
(* The file system.                                                        *)

Absent ==
    [kind |-> "absent", statOk |-> FALSE, readable |-> FALSE,
     content |-> "", mtime |-> 0, ctime |-> 0, ino |-> 0]

\* the inode number of the object created at a path
InodeOf(p) ==
    CASE p = RootA -> 1
      [] p = <<"a", "f">> -> 2
      [] p = <<"a", "g">> -> 3
      [] p = <<"a", "d">> -> 4
      [] p = <<"a", "d", "f">> -> 5
      [] p = RootB -> 6
      [] p = <<"b", "f">> -> 7
      [] OTHER -> 8

MkFile(p, c, t) ==
    [kind |-> "file", statOk |-> TRUE, readable |-> TRUE,
     content |-> c, mtime |-> t, ctime |-> 0, ino |-> InodeOf(p)]

MkDir(p) ==
    [kind |-> "dir", statOk |-> TRUE, readable |-> TRUE,
     content |-> "", mtime |-> 0, ctime |-> 0, ino |-> InodeOf(p)]

\* fs::metadata(path): the stat record of a path, or an error
fs_metadata(p) ==
    IF p \in AllPaths /\ fs[p].kind # "absent" /\ fs[p].statOk
    THEN [ok |-> TRUE, md |-> fs[p]]
    ELSE [ok |-> FALSE, md |-> Absent]

is_file(md) == md.kind = "file"
is_dir(md) == md.kind = "dir"

\* fs::read_dir(path) with the failed entries filtered out
ChildPaths(p) == [i \in 1..Len(EnumOrder) |-> Append(p, EnumOrder[i])]
IsListed(c) == c \in AllPaths /\ fs[c].kind # "absent"
read_dir(p) ==
    IF fs[p].readable
    THEN [ok |-> TRUE, entries |-> SelectSeq(ChildPaths(p), IsListed)]
    ELSE [ok |-> FALSE, entries |-> <<>>]

\* fs::read_to_string(path)
read_to_string(p) ==
    IF fs[p].kind \in {"file", "other"} /\ fs[p].readable
    THEN [ok |-> TRUE, content |-> fs[p].content]
    ELSE [ok |-> FALSE, content |-> ""]

-----------------------------------------------------------------------------
(* Keys and metadata.                                                      *)

\* a hash seeded anew by every command
generate_key_seeded(ident) == <<"sha256", ident, steps>>

\* generate_key: SHA-256 of the identity string, in hex.  The hash is taken
\* to be collision free: two keys are equal iff the identity strings are.
generate_key(ident) == <<"sha256", ident>>

\* impl From<&Metadata> for FileMetaData
FileMetaData(md) ==
    [tag |-> "File", ctime |-> md.ctime, mtime |-> md.mtime,
     size |-> Len(md.content), inode |-> md.ino]

DirMetaData(data, ino) == [tag |-> "Directory", data |-> data, inode |-> ino]

DirEntry(name, data) == [name |-> name, data |-> data]

BOFEntry(key, path, metadata) == [key |-> key, path |-> path, metadata |-> metadata]

-----------------------------------------------------------------------------
(* The index store.                                                        *)

\* BOFIndex::new
BOFIndexNew == [entries |-> <<>>, inverse_table |-> <<>>]

\* an insert that forgets the other keys of the map
MapInsert_forgetful(m, k, v) == [x \in {k} |-> v]

\* HashMap::insert
MapInsert(m, k, v) == [x \in DOMAIN m \cup {k} |-> IF x = k THEN v ELSE m[x]]

\* a push that leaves out a parent the list already has
InversePush_dedup(inv, key, par) ==
    IF key \in DOMAIN inv /\ \E i \in DOMAIN inv[key] : inv[key][i] = par
    THEN inv
    ELSE MapInsert(inv, key, IF key \in DOMAIN inv THEN Append(inv[key], par) ELSE <<par>>)

\* inverse_table.entry(key).or_default().push(parent)
InversePush(inv, key, par) ==
    MapInsert(inv, key, IF key \in DOMAIN inv THEN Append(inv[key], par) ELSE <<par>>)

\* BOFIndex::add_entry; md is the stat record of the path
add_entry(idx, path, key, md, dir_entries) ==
    IF is_file(md)
    THEN [idx |-> [entries |-> MapInsert(idx.entries, path,
                                    BOFEntry(key, path, FileMetaData(md))),
                   inverse_table |-> InversePush(idx.inverse_table, key, parent(path))],
          meta |-> FileMetaData(md)]
    ELSE [idx |-> idx, meta |-> DirMetaData(dir_entries, md.ino)]

\* an add_entry_meta that forgets the inverse table
add_entry_meta_no_inverse(idx, path, key, metadata, dir_entries) ==
    IF metadata.tag = "File"
    THEN [idx |-> [idx EXCEPT !.entries = MapInsert(idx.entries, path,
                                              BOFEntry(key, path, metadata))],
          meta |-> metadata]
    ELSE [idx |-> idx, meta |-> DirMetaData(dir_entries, metadata.inode)]

\* BOFIndex::add_entry_meta; metadata is a MetaData value
add_entry_meta(idx, path, key, metadata, dir_entries) ==
    IF metadata.tag = "File"
    THEN [idx |-> [entries |-> MapInsert(idx.entries, path,
                                    BOFEntry(key, path, metadata)),
                   inverse_table |-> InversePush(idx.inverse_table, key, parent(path))],
          meta |-> metadata]
    ELSE [idx |-> idx, meta |-> DirMetaData(dir_entries, metadata.inode)]

\* an update_entry that inserts the entry when the path has none
update_entry_upsert(idx, path, key, md) ==
    [idx EXCEPT !.entries = MapInsert(idx.entries, path,
                                      BOFEntry(key, path, FileMetaData(md)))]

\* BOFIndex::update_entry: the entry whose path field is `path` (the map
\* is keyed by that field, so there is at most one)
update_entry(idx, path, key, md) ==
    [idx EXCEPT !.entries =
        [x \in DOMAIN idx.entries |->
            IF idx.entries[x].path = path
            THEN BOFEntry(key, idx.entries[x].path, FileMetaData(md))
            ELSE idx.entries[x]]]

-----------------------------------------------------------------------------
(* The sequential traversal (index session).                               *)

Err(idx) == [ok |-> FALSE, meta |-> DirMetaData(<<>>, 0), idx |-> idx]
Ok(meta, idx) == [ok |-> TRUE, meta |-> meta, idx |-> idx]

\* config.ignore_paths.contains(&path)
is_ignored(p) == p \in ignore

\* a key made of the content alone
file_key_content_only(content, name) == generate_key(content)

\* key of a regular file: generate_key(content + &name)
file_key(content, name) == generate_key(content \o name)

\* an unreadable file hashed as if it were empty
hash_file_lossy(path, name) ==
    LET rd == read_to_string(path) IN
    [ok |-> TRUE, key |-> file_key(rd.content, name)]

\* `match fs::read_to_string(&path) { Ok(content) => generate_key(content +
\* &name), Err(e) => { ...; return; } }`
hash_file(path, name) ==
    LET rd == read_to_string(path) IN
    IF rd.ok THEN [ok |-> TRUE, key |-> file_key(rd.content, name)]
    ELSE [ok |-> FALSE, key |-> generate_key("")]

RECURSIVE index(_, _)
RECURSIVE index_children(_, _, _, _)

\* the for_each closure of index, applied to entries[i..]; data is
\* dir_entries.data
index_children(entries, i, idx, data) ==
    IF i > Len(entries) THEN [idx |-> idx, data |-> data]
    ELSE
        LET path == entries[i]
            name == file_name(path)
            md == fs[path]
            skip == index_children(entries, i + 1, idx, data)
        IN  IF ~md.statOk THEN skip
            ELSE IF is_ignored(path) THEN skip
            ELSE IF is_file(md) THEN
                LET h == hash_file(path, name) IN
                IF ~h.ok THEN skip
                ELSE LET a == add_entry(idx, path, h.key, md, <<>>)
                     IN  index_children(entries, i + 1, a.idx,
                                        Append(data, DirEntry(name, a.meta)))
            ELSE IF is_dir(md) THEN
                LET sub == index(path, idx) IN
                IF sub.ok
                THEN index_children(entries, i + 1, sub.idx,
                                    Append(data, DirEntry(name, sub.meta)))
                ELSE index_children(entries, i + 1, sub.idx, data)
            ELSE skip

\* an index that hands the children to add_entry last to first
index_reversed(path, idx) ==
    LET st == fs_metadata(path) IN
    IF ~st.ok THEN Err(idx)
    ELSE IF ~is_dir(st.md) THEN Err(idx)
    ELSE IF is_ignored(path) THEN Ok(DirMetaData(<<>>, st.md.ino), idx)
    ELSE LET ls == read_dir(path) IN
         IF ~ls.ok THEN Err(idx)
         ELSE LET r == index_children(ls.entries, 1, idx, <<>>)
                  n == Len(r.data)
                  a == add_entry(r.idx, path, generate_key(to_string(path)),
                                 st.md, [j \in 1..n |-> r.data[n + 1 - j]])
              IN  Ok(a.meta, a.idx)

\* fn index
index(path, idx) ==
    LET st == fs_metadata(path) IN
    IF ~st.ok THEN Err(idx)
    ELSE IF ~is_dir(st.md) THEN Err(idx)
    ELSE IF is_ignored(path) THEN Ok(DirMetaData(<<>>, st.md.ino), idx)
    ELSE LET ls == read_dir(path) IN
         IF ~ls.ok THEN Err(idx)
         ELSE LET r == index_children(ls.entries, 1, idx, <<>>)
                  a == add_entry(r.idx, path, generate_key(to_string(path)),
                                 st.md, r.data)
              IN  Ok(a.meta, a.idx)

-----------------------------------------------------------------------------
(* The sequential reconciler (update session).                             *)

\* a reconciler that re-hashes every file that has an entry, whatever its
\* modification time
mtime_changed_always(file_meta, md) == TRUE

\* file_meta.mtime != metadata.modified().unwrap()
mtime_changed(file_meta, md) == file_meta.mtime # md.mtime

\* the store a recursive update_index call on a subdirectory leaves in the
\* caller: the call is made on `&mut bof_index.clone()`, so the caller's
\* store is what it was before the call
after_subdir_update(caller_idx, sub_idx) == caller_idx

RECURSIVE update_index(_, _)
RECURSIVE update_index_children(_, _, _, _)
RECURSIVE update_index_children_descend(_, _, _, _)

\* a closure that takes a stored Directory record for no entry at all: it
\* hashes or descends into the child as if the path were new
update_index_children_descend(entries, i, idx, data) ==
    IF i > Len(entries) THEN [idx |-> idx, data |-> data]
    ELSE
        LET path == entries[i]
            name == file_name(path)
            md == fs[path]
            skip == update_index_children_descend(entries, i + 1, idx, data)
            known == path \in DOMAIN idx.entries
                        /\ idx.entries[path].metadata.tag = "File"
        IN  IF ~md.statOk THEN skip
            ELSE IF known THEN
                IF mtime_changed(idx.entries[path].metadata, md) THEN
                    LET h == hash_file(path, name) IN
                    IF ~h.ok THEN skip
                    ELSE update_index_children_descend(entries, i + 1,
                            update_entry(idx, path, h.key, md), data)
                ELSE skip
            ELSE IF is_file(md) THEN
                LET h == hash_file(path, name) IN
                IF ~h.ok THEN skip
                ELSE LET a == add_entry(idx, path, h.key, md, <<>>)
                     IN  update_index_children_descend(entries, i + 1, a.idx,
                                               Append(data, DirEntry(name, a.meta)))
            ELSE IF is_dir(md) THEN
                LET sub == update_index(path, idx) IN
                IF sub.ok
                THEN update_index_children_descend(entries, i + 1,
                                           after_subdir_update(idx, sub.idx),
                                           Append(data, DirEntry(name, sub.meta)))
                ELSE update_index_children_descend(entries, i + 1,
                                           after_subdir_update(idx, sub.idx), data)
            ELSE skip

\* the for_each closure of update_index, applied to entries[i..]
update_index_children(entries, i, idx, data) ==
    IF i > Len(entries) THEN [idx |-> idx, data |-> data]
    ELSE
        LET path == entries[i]
            name == file_name(path)
            md == fs[path]
            skip == update_index_children(entries, i + 1, idx, data)
        IN  IF ~md.statOk THEN skip
            ELSE IF path \in DOMAIN idx.entries THEN
                LET entry == idx.entries[path] IN
                IF entry.metadata.tag = "Directory" THEN skip
                ELSE IF mtime_changed(entry.metadata, md) THEN
                    LET h == hash_file(path, name) IN
                    IF ~h.ok THEN skip
                    ELSE update_index_children(entries, i + 1,
                            update_entry(idx, path, h.key, md), data)
                ELSE skip
            ELSE IF is_file(md) THEN
                LET h == hash_file(path, name) IN
                IF ~h.ok THEN skip
                ELSE LET a == add_entry(idx, path, h.key, md, <<>>)
                     IN  update_index_children(entries, i + 1, a.idx,
                                               Append(data, DirEntry(name, a.meta)))
            ELSE IF is_dir(md) THEN
                LET sub == update_index(path, idx) IN
                IF sub.ok
                THEN update_index_children(entries, i + 1,
                                           after_subdir_update(idx, sub.idx),
                                           Append(data, DirEntry(name, sub.meta)))
                ELSE update_index_children(entries, i + 1,
                                           after_subdir_update(idx, sub.idx), data)
            ELSE skip

\* fn update_index
update_index(path, idx) ==
    LET st == fs_metadata(path) IN
    IF ~st.ok THEN Err(idx)
    ELSE IF ~is_dir(st.md) THEN Err(idx)
    ELSE IF is_ignored(path) THEN Ok(DirMetaData(<<>>, st.md.ino), idx)
    ELSE LET ls == read_dir(path) IN
         IF ~ls.ok THEN Err(idx)
         ELSE LET r == update_index_children(ls.entries, 1, idx, <<>>) IN
              IF \E x \in DOMAIN r.idx.entries : r.idx.entries[x].path = path
              THEN Ok(r.idx.entries[
                        CHOOSE x \in DOMAIN r.idx.entries :
                            r.idx.entries[x].path = path].metadata, r.idx)
              ELSE LET a == add_entry(r.idx, path, generate_key(to_string(path)),
                                      st.md, r.data)
                   IN  Ok(a.meta, a.idx)

-----------------------------------------------------------------------------
(* Persistence: index.json holds the forward entries as a sequence (in the *)
(* iteration order of the map, which load_indices does not depend on: it   *)
(* is kept here as the set of the sequence's elements) and the inverse     *)
(* table.                                                                  *)

NoFile == [present |-> FALSE, entries |-> {}, inverse_table |-> <<>>]

\* fn save_index: the document written
save_index(idx) ==
    [present |-> TRUE,
     entries |-> {idx.entries[x] : x \in DOMAIN idx.entries},
     inverse_table |-> idx.inverse_table]

\* a load that rebuilds the forward map keyed by each entry's key field
load_indices_by_key(doc) ==
    IF ~doc.present THEN [ok |-> FALSE, idx |-> BOFIndexNew]
    ELSE [ok |-> TRUE,
          idx |-> [entries |->
                      [k \in {e.key : e \in doc.entries} |->
                          CHOOSE e \in doc.entries : e.key = k],
                   inverse_table |-> doc.inverse_table]]

\* fn load_indices: the forward map rebuilt, keyed by each entry's path field
load_indices(doc) ==
    IF ~doc.present THEN [ok |-> FALSE, idx |-> BOFIndexNew]
    ELSE [ok |-> TRUE,
          idx |-> [entries |->
                      [p \in {e.path : e \in doc.entries} |->
                          CHOOSE e \in doc.entries : e.path = p],
                   inverse_table |-> doc.inverse_table]]

-----------------------------------------------------------------------------
(* The two commands in sequential mode (config.parallel = false).          *)

\* `for path in paths { index(&path, &mut bof_index, config)?; }`; metas are
\* the records the calls returned (the command drops them)
RECURSIVE index_roots(_, _, _, _)
index_roots(paths, i, idx, metas) ==
    IF i > Len(paths) THEN [ok |-> TRUE, idx |-> idx, metas |-> metas]
    ELSE LET r == index(paths[i], idx) IN
         IF r.ok THEN index_roots(paths, i + 1, r.idx, Append(metas, r.meta))
         ELSE [ok |-> FALSE, idx |-> r.idx, metas |-> metas]

\* `for path in paths { update_index(&path, &mut existing_indices, config)?; }`
RECURSIVE update_roots(_, _, _, _)
update_roots(paths, i, idx, metas) ==
    IF i > Len(paths) THEN [ok |-> TRUE, idx |-> idx, metas |-> metas]
    ELSE LET r == update_index(paths[i], idx) IN
         IF r.ok THEN update_roots(paths, i + 1, r.idx, Append(metas, r.meta))
         ELSE [ok |-> FALSE, idx |-> r.idx, metas |-> metas]

\* the root lists a command is given
RootLists ==
    { <<RootA>>, <<RootA, RootB>>, <<RootX, RootA>>, << <<"a", "f">>, RootB >> }

LastNone ==
    [op |-> "none", paths |-> <<>>, loaded |-> BOFIndexNew, saved |-> FALSE,
     metas |-> <<>>]
LastEnv == [LastNone EXCEPT !.op = "env"]

\* no concurrent command is running
SessIdle == [op |-> "none", paths |-> <<>>, phase |-> "idle", loaded |-> BOFIndexNew]
UnitIdle == [pc |-> "idle", key |-> generate_key(""), meta |-> DirMetaData(<<>>, 0)]
FrameIdle == [pc |-> "idle", queue |-> <<>>, res |-> [ok |-> FALSE, meta |-> DirMetaData(<<>>, 0)]]
Free == <<"free">>

ParIdle ==
    /\ sess = SessIdle
    /\ shared = <<>>
    /\ lock = <<>>
    /\ unit = [p \in AllPaths |-> UnitIdle]
    /\ frame = [p \in AllPaths |-> FrameIdle]

\* fn index_directories, sequential branch
IndexDirectories(paths) ==
    LET r == index_roots(paths, 1, BOFIndexNew, <<>>) IN
    /\ disk' = IF r.ok THEN save_index(r.idx) ELSE disk
    /\ last' = [op |-> "index", paths |-> paths, loaded |-> BOFIndexNew,
                saved |-> r.ok, metas |-> r.metas]
    /\ sess.phase = "idle"
    /\ steps < MaxSteps
    /\ steps' = steps + 1
    /\ UNCHANGED <<fs, now, ignore>>
    /\ UNCHANGED parVars

\* fn update_directories, sequential branch
UpdateDirectories(paths) ==
    LET ld == load_indices(disk)
        r == update_roots(paths, 1, ld.idx, <<>>)
    IN  /\ disk' = IF ld.ok /\ r.ok THEN save_index(r.idx) ELSE disk
        /\ last' = [op |-> "update", paths |-> paths, loaded |-> ld.idx,
                    saved |-> ld.ok /\ r.ok, metas |-> IF ld.ok THEN r.metas ELSE <<>>]
        /\ sess.phase = "idle"
        /\ steps < MaxSteps
        /\ steps' = steps + 1
        /\ UNCHANGED <<fs, now, ignore>>
        /\ UNCHANGED parVars

-----------------------------------------------------------------------------
(* The environment: other programs change the tree between two commands.   *)

\* the paths at which regular files come and go
FilePaths == { <<"a", "f">>, <<"a", "g">>, <<"a", "d", "f">> }
Contents == {"x", "y"}

\* a file is created or overwritten at time t, at the clock's value or one
\* tick later; its modification time is t
WriteFile(p, c, t) ==
    /\ sess.phase = "idle"
    /\ steps < MaxSteps
    /\ t \in {now, now + 1}
    /\ fs[p].kind \in {"absent", "file"}
    /\ fs[parent(p)].kind = "dir"
    /\ fs[p].kind = "file" => fs[p].readable /\ fs[p].statOk
    /\ fs[p] # MkFile(p, c, t)
    /\ fs' = [fs EXCEPT ![p] = MkFile(p, c, t)]
    /\ now' = t
    /\ last' = LastEnv
    /\ steps' = steps + 1
    /\ UNCHANGED <<ignore, disk>>
    /\ UNCHANGED parVars

\* a file is deleted
RemoveFile(p) ==
    /\ sess.phase = "idle"
    /\ steps < MaxSteps
    /\ fs[p].kind = "file"
    /\ fs' = [fs EXCEPT ![p] = Absent]
    /\ last' = LastEnv
    /\ steps' = steps + 1
    /\ UNCHANGED <<now, ignore, disk>>
    /\ UNCHANGED parVars

-----------------------------------------------------------------------------
(* Initial states: the trees and the ignore sets the commands are run on.  *)

\* what <<"a", "g">> is at the start
GKinds ==
    { MkFile(<<"a", "g">>, "x", 0),
      [MkFile(<<"a", "g">>, "x", 0) EXCEPT !.readable = FALSE] }

Tree(g, df) ==
    [p \in AllPaths |->
        CASE p = RootA -> MkDir(p)
          [] p = RootB -> MkDir(p)
          [] p = <<"a", "d">> -> MkDir(p)
          [] p = <<"a", "f">> -> MkFile(p, "x", 0)
          [] p = <<"b", "f">> -> MkFile(p, "x", 0)
          [] p = <<"a", "g">> -> g
          [] p = <<"a", "d", "f">> -> df
          [] OTHER -> Absent]

InitTrees == { Tree(g, df) : g \in GKinds, df \in {Absent, MkFile(<<"a", "d", "f">>, "y", 0)} }

IgnoreSets == { {}, {<<"a", "g">>, <<"a", "d">>} }

Init ==
    /\ fs \in InitTrees
    /\ now = 0
    /\ ignore \in IgnoreSets
    /\ disk = NoFile
    /\ last = LastNone
    /\ steps = 0
    /\ ParIdle

Next ==
    \/ \E paths \in RootLists : IndexDirectories(paths)
    \/ \E paths \in RootLists : UpdateDirectories(paths)
    \/ \E p \in FilePaths, c \in Contents, t \in 0..MaxClock : WriteFile(p, c, t)
    \/ \E p \in FilePaths : RemoveFile(p)

vars == <<fs, now, ignore, disk, last, steps, sess, shared, lock, unit, frame>>

Spec == Init /\ [][Next]_vars

-----------------------------------------------------------------------------
(* The concurrent traversal: index_directories with config.parallel, and   *)
(* index_parallel.  A frame is one call of index_parallel on a directory;  *)
(* a unit is one call of the par_iter closure on a directory entry (or, for *)
(* a root, of the closure of index_directories).  The units of a frame run *)
(* in any order and interleave with everything else.                       *)

\* the Arc<Mutex<BOFIndex>> a call on path p works on: index_directories
\* makes one for the command, update_directories one per root
ArcOf(p) ==
    IF sess.op = "index" THEN <<>>
    ELSE CHOOSE r \in Range0(sess.paths) : IsPrefix(r, p)

IsRoot(p) == p \in {sess.paths[i] : i \in DOMAIN sess.paths}

\* a par_iter that does not wait for its closures
ChildrenDone_no_wait(p) == TRUE

\* the units spawned by the frame on p have all returned
ChildrenDone(p) ==
    \A c \in AllPaths : parent(c) = p /\ ~IsRoot(c) => unit[c].pc \in {"idle", "done"}

QDirEntry(e) == [tag |-> "DirEntry", entry |-> e]
QBOFEntry(e) == [tag |-> "BOFEntry", entry |-> e]

\* queue.push(item) on the queue of the frame on p
QueuePush(fr, p, item) == [fr EXCEPT ![p].queue = Append(@, item)]

\* `while let Some(item) = queue.pop() { ... }` from item i on
RECURSIVE drain(_, _, _, _)
drain(queue, i, idx, dir_entries) ==
    IF i > Len(queue) THEN [idx |-> idx, dir_entries |-> dir_entries]
    ELSE IF queue[i].tag = "DirEntry"
         THEN drain(queue, i + 1, idx, Append(dir_entries, queue[i].entry))
         ELSE drain(queue, i + 1,
                    add_entry_meta(idx, queue[i].entry.path, queue[i].entry.key,
                                   queue[i].entry.metadata, <<>>).idx,
                    dir_entries)

\* index_directories, parallel branch: the store is created and one closure
\* per root calls index_parallel
StartIndexParallel(paths) ==
    /\ sess.phase = "idle"
    /\ sess' = [op |-> "index", paths |-> paths, phase |-> "run", loaded |-> BOFIndexNew]
    /\ shared' = (<<>> :> BOFIndexNew)
    /\ lock' = (<<>> :> Free)
    /\ unit' = [p \in AllPaths |->
                  IF p \in Range0(paths) THEN [UnitIdle EXCEPT !.pc = "wait"] ELSE UnitIdle]
    /\ frame' = [p \in AllPaths |->
                   IF p \in Range0(paths) THEN [FrameIdle EXCEPT !.pc = "enter"] ELSE FrameIdle]
    /\ UNCHANGED seqVars

\* index_parallel up to the par_iter: stat, directory check, ignore check,
\* read_dir; then one unit per entry
FrameEnter(p) ==
    /\ sess.op = "index" /\ sess.phase = "run"
    /\ frame[p].pc = "enter"
    /\ LET st == fs_metadata(p) IN
       IF ~st.ok \/ ~is_dir(st.md) \/ (~is_ignored(p) /\ ~read_dir(p).ok)
       THEN /\ frame' = [frame EXCEPT ![p].pc = "ret",
                                       ![p].res = [ok |-> FALSE, meta |-> DirMetaData(<<>>, 0)]]
            /\ UNCHANGED unit
       ELSE IF is_ignored(p)
       THEN /\ frame' = [frame EXCEPT ![p].pc = "ret",
                                       ![p].res = [ok |-> TRUE,
                                                   meta |-> DirMetaData(<<>>, st.md.ino)]]
            /\ UNCHANGED unit
       ELSE /\ frame' = [frame EXCEPT ![p].pc = "join"]
            /\ unit' = [c \in AllPaths |->
                          IF c \in Range0(read_dir(p).entries)
                          THEN [UnitIdle EXCEPT !.pc = "run"] ELSE unit[c]]
    /\ UNCHANGED <<sess, shared, lock>>
    /\ UNCHANGED seqVars

\* the closure up to its first push: stat, ignore check, then the read of a
\* regular file or the recursive call for a directory
UnitRun(c) ==
    /\ sess.op = "index" /\ sess.phase = "run"
    /\ unit[c].pc = "run"
    /\ LET name == file_name(c)
           md == fs[c]
           h == hash_file(c, name)
       IN  IF ~md.statOk \/ is_ignored(c)
           THEN unit' = [unit EXCEPT ![c].pc = "done"] /\ UNCHANGED frame
           ELSE IF is_file(md)
           THEN /\ unit' = [unit EXCEPT ![c] =
                              IF h.ok
                              THEN [pc |-> "push_dir", key |-> h.key, meta |-> FileMetaData(md)]
                              ELSE [UnitIdle EXCEPT !.pc = "done"]]
                /\ UNCHANGED frame
           ELSE IF is_dir(md)
           THEN /\ unit' = [unit EXCEPT ![c].pc = "wait"]
                /\ frame' = [frame EXCEPT ![c].pc = "enter"]
           ELSE unit' = [unit EXCEPT ![c].pc = "done"] /\ UNCHANGED frame
    /\ UNCHANGED <<sess, shared, lock>>
    /\ UNCHANGED seqVars

\* queue.push(QueueItem::DirEntry(..)) for a file
UnitPushDir(c) ==
    /\ sess.op = "index" /\ sess.phase = "run"
    /\ unit[c].pc = "push_dir"
    /\ frame' = QueuePush(frame, parent(c), QDirEntry(DirEntry(file_name(c), unit[c].meta)))
    /\ unit' = [unit EXCEPT ![c].pc = "push_bof"]
    /\ UNCHANGED <<sess, shared, lock>>
    /\ UNCHANGED seqVars

\* queue.push(QueueItem::BOFEntry(..)) for a file
UnitPushBof(c) ==
    /\ sess.op = "index" /\ sess.phase = "run"
    /\ unit[c].pc = "push_bof"
    /\ frame' = QueuePush(frame, parent(c), QBOFEntry(BOFEntry(unit[c].key, c, unit[c].meta)))
    /\ unit' = [unit EXCEPT ![c].pc = "done"]
    /\ UNCHANGED <<sess, shared, lock>>
    /\ UNCHANGED seqVars

\* the recursive call returned: a subdirectory's record is pushed, an error
\* is logged; a root's closure only logs
UnitReturn(c) ==
    /\ sess.op = "index" /\ sess.phase = "run"
    /\ unit[c].pc = "wait" /\ frame[c].pc = "ret"
    /\ unit' = [unit EXCEPT ![c].pc = "done"]
    /\ frame' = IF ~IsRoot(c) /\ frame[c].res.ok
                THEN QueuePush(frame, parent(c),
                               QDirEntry(DirEntry(file_name(c), frame[c].res.meta)))
                ELSE frame
    /\ UNCHANGED <<sess, shared, lock>>
    /\ UNCHANGED seqVars

\* `let mut index_lock = bof_index.lock().unwrap();` after the par_iter
FrameLock(p) ==
    /\ sess.op = "index" /\ sess.phase = "run"
    /\ frame[p].pc = "join" /\ ChildrenDone(p)
    /\ lock[ArcOf(p)] = Free
    /\ lock' = [lock EXCEPT ![ArcOf(p)] = <<"frame", p>>]
    /\ frame' = [frame EXCEPT ![p].pc = "drain"]
    /\ UNCHANGED <<sess, shared, unit>>
    /\ UNCHANGED seqVars

\* with the lock held: the queue is drained, add_entry is called for the
\* directory, the record is returned and the guard dropped
FrameFinish(p) ==
    /\ sess.op = "index" /\ sess.phase = "run"
    /\ frame[p].pc = "drain"
    /\ LET d == drain(frame[p].queue, 1, shared[ArcOf(p)], <<>>)
           meta_data == DirMetaData(d.dir_entries, fs[p].ino)
           a == add_entry(d.idx, p, generate_key(to_string(p)), fs[p], d.dir_entries)
       IN  /\ shared' = [shared EXCEPT ![ArcOf(p)] = a.idx]
           /\ frame' = [frame EXCEPT ![p].pc = "ret", ![p].queue = <<>>,
                                      ![p].res = [ok |-> TRUE, meta |-> meta_data]]
    /\ lock' = [lock EXCEPT ![ArcOf(p)] = Free]
    /\ UNCHANGED <<sess, unit>>
    /\ UNCHANGED seqVars

\* index_directories after the par_iter over the roots: lock, save_index
SaveIndexParallel ==
    /\ sess.op = "index" /\ sess.phase = "run"
    /\ \A r \in Range0(sess.paths) : unit[r].pc = "done"
    /\ lock[<<>>] = Free
    /\ disk' = save_index(shared[<<>>])
    /\ sess' = [sess EXCEPT !.phase = "saved"]
    /\ UNCHANGED <<fs, now, ignore, last, steps, shared, lock, unit, frame>>

\* the trees an index command is run on: each kind of entry occurs
EntryKinds ==
    { MkFile(<<"a", "g">>, "x", 0),
      [MkFile(<<"a", "g">>, "x", 0) EXCEPT !.readable = FALSE],
      [MkFile(<<"a", "g">>, "x", 0) EXCEPT !.statOk = FALSE],
      [MkFile(<<"a", "g">>, "x", 0) EXCEPT !.kind = "other"] }

IndexTrees ==
    { Tree(g, df) : g \in EntryKinds,
                    df \in {Absent, MkFile(<<"a", "d", "f">>, "y", 0),
                            MkFile(<<"a", "d", "f">>, "x", 0)} }

IndexIgnoreSets == { {}, {<<"a", "g">>}, {<<"a", "d">>} }

InitIndex ==
    /\ fs \in IndexTrees
    /\ now = 0
    /\ ignore \in IndexIgnoreSets
    /\ disk = NoFile
    /\ last = LastNone
    /\ steps = 0
    /\ ParIdle

\* one index command, in either mode
NextIndex ==
    \/ \E paths \in RootLists : last.op = "none" /\ IndexDirectories(paths)
    \/ \E paths \in RootLists : last.op = "none" /\ StartIndexParallel(paths)
    \/ \E p \in AllPaths : FrameEnter(p)
    \/ \E c \in AllPaths : UnitRun(c)
    \/ \E c \in AllPaths : UnitPushDir(c)
    \/ \E c \in AllPaths : UnitPushBof(c)
    \/ \E c \in AllPaths : UnitReturn(c)
    \/ \E p \in AllPaths : FrameLock(p)
    \/ \E p \in AllPaths : FrameFinish(p)
    \/ SaveIndexParallel

SpecIndex == InitIndex /\ [][NextIndex]_vars

-----------------------------------------------------------------------------
(* The concurrent reconciler: update_directories with config.parallel, and *)
(* update_index_parallel.  Frames and units are as above.  A unit takes the *)
(* mutex right after its stat and keeps the guard until the closure        *)
(* returns; a frame takes it after the par_iter and keeps the guard until  *)
(* the function returns.                                                   *)

\* the mutex that `who` wants is held by a unit that is itself waiting for
\* the call `who` belongs to: `who` is never given the mutex
HeldByWaitingCaller(p) ==
    \E c \in AllPaths :
        /\ lock[ArcOf(p)] = <<"unit", c>>
        /\ unit[c].pc = "wait"
        /\ IsPrefix(c, p)

\* Mutex::lock by a thread that can never be given the mutex (it, or the
\* thread it works for, holds it): the call does not return; it blocks for
\* ever or panics, and a panic takes the command down
LockOutcomes == {"deadlock", "panic"}
PhaseAfter(outcome) == IF outcome = "panic" THEN "panicked" ELSE sess.phase

\* update_directories, parallel branch: the store is loaded and each root's
\* closure calls update_index_parallel on its own Arc<Mutex<clone>>
StartUpdateParallel(paths) ==
    /\ sess.phase = "idle"
    /\ load_indices(disk).ok
    /\ sess' = [op |-> "update", paths |-> paths, phase |-> "run",
                loaded |-> load_indices(disk).idx]
    /\ shared' = [r \in Range0(paths) |-> load_indices(disk).idx]
    /\ lock' = [r \in Range0(paths) |-> Free]
    /\ unit' = [p \in AllPaths |->
                  IF p \in Range0(paths) THEN [UnitIdle EXCEPT !.pc = "wait"] ELSE UnitIdle]
    /\ frame' = [p \in AllPaths |->
                   IF p \in Range0(paths) THEN [FrameIdle EXCEPT !.pc = "enter"] ELSE FrameIdle]
    /\ UNCHANGED seqVars

\* update_index_parallel up to the par_iter
UFrameEnter(p) ==
    /\ sess.op = "update" /\ sess.phase = "run"
    /\ frame[p].pc = "enter"
    /\ LET st == fs_metadata(p) IN
       IF ~st.ok \/ ~is_dir(st.md) \/ (~is_ignored(p) /\ ~read_dir(p).ok)
       THEN /\ frame' = [frame EXCEPT ![p].pc = "ret",
                                       ![p].res = [ok |-> FALSE, meta |-> DirMetaData(<<>>, 0)]]
            /\ UNCHANGED unit
       ELSE IF is_ignored(p)
       THEN /\ frame' = [frame EXCEPT ![p].pc = "ret",
                                       ![p].res = [ok |-> TRUE,
                                                   meta |-> DirMetaData(<<>>, st.md.ino)]]
            /\ UNCHANGED unit
       ELSE /\ frame' = [frame EXCEPT ![p].pc = "join"]
            /\ unit' = [c \in AllPaths |->
                          IF c \in Range0(read_dir(p).entries)
                          THEN [UnitIdle EXCEPT !.pc = "stat"] ELSE unit[c]]
    /\ UNCHANGED <<sess, shared, lock>>
    /\ UNCHANGED seqVars

\* the closure's entry.metadata()
UUnitStat(c) ==
    /\ sess.op = "update" /\ sess.phase = "run"
    /\ unit[c].pc = "stat"
    /\ unit' = [unit EXCEPT ![c].pc = IF fs[c].statOk THEN "lock" ELSE "done"]
    /\ UNCHANGED <<sess, shared, lock, frame>>
    /\ UNCHANGED seqVars

\* `let mut index_lock = bof_index.lock().unwrap();` and the match on
\* entries.get_mut(&path): the unit goes on to a read or to the recursive
\* call with the guard held, or returns and drops it
UUnitLock(c) ==
    /\ sess.op = "update" /\ sess.phase = "run"
    /\ unit[c].pc = "lock"
    /\ lock[ArcOf(c)] = Free
    /\ LET idx == shared[ArcOf(c)]
           md == fs[c]
           next ==
               IF c \in DOMAIN idx.entries
               THEN IF idx.entries[c].metadata.tag = "Directory" THEN "done"
                    ELSE IF mtime_changed(idx.entries[c].metadata, md) THEN "read_upd"
                    ELSE "done"
               ELSE IF is_file(md) THEN "read_new"
               ELSE IF is_dir(md) THEN "wait"
               ELSE "done"
       IN  /\ unit' = [unit EXCEPT ![c].pc = next]
           /\ lock' = IF next = "done" THEN lock
                      ELSE [lock EXCEPT ![ArcOf(c)] = <<"unit", c>>]
           /\ frame' = IF next = "wait" THEN [frame EXCEPT ![c].pc = "enter"] ELSE frame
    /\ UNCHANGED <<sess, shared>>
    /\ UNCHANGED seqVars

\* with the guard held: the changed file is read and update_entry called
UUnitReadUpdate(c) ==
    /\ sess.op = "update" /\ sess.phase = "run"
    /\ unit[c].pc = "read_upd"
    /\ LET h == hash_file(c, file_name(c)) IN
       shared' = IF h.ok
                 THEN [shared EXCEPT ![ArcOf(c)] = update_entry(@, c, h.key, fs[c])]
                 ELSE shared
    /\ unit' = [unit EXCEPT ![c].pc = "done"]
    /\ lock' = [lock EXCEPT ![ArcOf(c)] = Free]
    /\ UNCHANGED <<sess, frame>>
    /\ UNCHANGED seqVars

\* with the guard held: the new file is read and its two items are queued
UUnitReadNew(c) ==
    /\ sess.op = "update" /\ sess.phase = "run"
    /\ unit[c].pc = "read_new"
    /\ LET h == hash_file(c, file_name(c))
           file_meta == FileMetaData(fs[c])
       IN  frame' = IF h.ok
                    THEN QueuePush(
                             QueuePush(frame, parent(c),
                                       QDirEntry(DirEntry(file_name(c), file_meta))),
                             parent(c), QBOFEntry(BOFEntry(h.key, c, file_meta)))
                    ELSE frame
    /\ unit' = [unit EXCEPT ![c].pc = "done"]
    /\ lock' = [lock EXCEPT ![ArcOf(c)] = Free]
    /\ UNCHANGED <<sess, shared>>
    /\ UNCHANGED seqVars

\* the recursive call returned: the subdirectory's record is queued and the
\* guard dropped; a root's closure only logs
UUnitReturn(c) ==
    /\ sess.op = "update" /\ sess.phase = "run"
    /\ unit[c].pc = "wait" /\ frame[c].pc = "ret"
    /\ unit' = [unit EXCEPT ![c].pc = "done"]
    /\ frame' = IF ~IsRoot(c) /\ frame[c].res.ok
                THEN QueuePush(frame, parent(c),
                               QDirEntry(DirEntry(file_name(c), frame[c].res.meta)))
                ELSE frame
    /\ lock' = IF IsRoot(c) THEN lock ELSE [lock EXCEPT ![ArcOf(c)] = Free]
    /\ UNCHANGED <<sess, shared>>
    /\ UNCHANGED seqVars

\* a unit of a nested call asks for the mutex its caller's caller holds
UUnitLockHeld(c) ==
    /\ sess.op = "update" /\ sess.phase = "run"
    /\ unit[c].pc = "lock"
    /\ HeldByWaitingCaller(c)
    /\ \E outcome \in LockOutcomes :
          /\ unit' = [unit EXCEPT ![c].pc = "stuck"]
          /\ sess' = [sess EXCEPT !.phase = PhaseAfter(outcome)]
    /\ UNCHANGED <<shared, lock, frame>>
    /\ UNCHANGED seqVars

\* `let mut index_lock = bof_index.lock().unwrap();` after the par_iter
UFrameLock(p) ==
    /\ sess.op = "update" /\ sess.phase = "run"
    /\ frame[p].pc = "join" /\ ChildrenDone(p)
    /\ lock[ArcOf(p)] = Free
    /\ lock' = [lock EXCEPT ![ArcOf(p)] = <<"frame", p>>]
    /\ frame' = [frame EXCEPT ![p].pc = "drain"]
    /\ UNCHANGED <<sess, shared, unit>>
    /\ UNCHANGED seqVars

\* the same lock() in a nested call, whose caller holds the mutex
UFrameLockHeld(p) ==
    /\ sess.op = "update" /\ sess.phase = "run"
    /\ frame[p].pc = "join" /\ ChildrenDone(p)
    /\ HeldByWaitingCaller(p)
    /\ \E outcome \in LockOutcomes :
          /\ frame' = [frame EXCEPT ![p].pc = "stuck"]
          /\ sess' = [sess EXCEPT !.phase = PhaseAfter(outcome)]
    /\ UNCHANGED <<shared, lock, unit>>
    /\ UNCHANGED seqVars

\* with the guard held: the queue is drained into the store
UFrameDrain(p) ==
    /\ sess.op = "update" /\ sess.phase = "run"
    /\ frame[p].pc = "drain"
    /\ LET d == drain(frame[p].queue, 1, shared[ArcOf(p)], <<>>) IN
       /\ shared' = [shared EXCEPT ![ArcOf(p)] = d.idx]
       /\ frame' = [frame EXCEPT ![p].pc = "relock", ![p].queue = d.dir_entries]
    /\ UNCHANGED <<sess, lock, unit>>
    /\ UNCHANGED seqVars

\* `let mut index = bof_index.lock().unwrap();` in the meta_data block,
\* while index_lock is still alive in the same thread
UFrameRelock(p) ==
    /\ sess.op = "update" /\ sess.phase = "run"
    /\ frame[p].pc = "relock"
    /\ IF lock[ArcOf(p)] = <<"frame", p>>
       THEN \E outcome \in LockOutcomes :
               /\ frame' = [frame EXCEPT ![p].pc = "stuck"]
               /\ sess' = [sess EXCEPT !.phase = PhaseAfter(outcome)]
               /\ UNCHANGED <<shared, lock>>
       ELSE LET idx == shared[ArcOf(p)]
                hit == {x \in DOMAIN idx.entries : idx.entries[x].path = p}
                a == add_entry(idx, p, generate_key(to_string(p)), fs[p], frame[p].queue)
            IN  /\ lock[ArcOf(p)] = Free
                /\ frame' = [frame EXCEPT ![p].pc = "ret", ![p].queue = <<>>,
                        ![p].res = [ok |-> TRUE,
                                    meta |-> IF hit # {}
                                             THEN idx.entries[CHOOSE x \in hit : TRUE].metadata
                                             ELSE a.meta]]
                /\ shared' = IF hit # {} THEN shared
                             ELSE [shared EXCEPT ![ArcOf(p)] = a.idx]
                /\ UNCHANGED <<sess, lock>>
    /\ UNCHANGED unit
    /\ UNCHANGED seqVars

\* update_directories after the par_iter over the roots:
\* save_index(existing_indices), the store that was loaded
SaveUpdateParallel ==
    /\ sess.op = "update" /\ sess.phase = "run"
    /\ \A r \in Range0(sess.paths) : unit[r].pc = "done"
    /\ disk' = save_index(sess.loaded)
    /\ sess' = [sess EXCEPT !.phase = "saved"]
    /\ UNCHANGED <<fs, now, ignore, last, steps, shared, lock, unit, frame>>

UpdateRootLists == { <<RootA>>, <<RootA, RootB>>, <<RootX>>, <<RootB>> }

UpdateIgnoreSets == { {}, {<<"a", "d">>}, {RootB} }

InitUpdate ==
    /\ fs \in InitTrees
    /\ now = 0
    /\ ignore \in UpdateIgnoreSets
    /\ disk = NoFile
    /\ last = LastNone
    /\ steps = 0
    /\ ParIdle

\* a step of the threads of the concurrent update
UpdateStep ==
    \/ \E p \in AllPaths : UFrameEnter(p)
    \/ \E c \in AllPaths : UUnitStat(c)
    \/ \E c \in AllPaths : UUnitLock(c)
    \/ \E c \in AllPaths : UUnitReadUpdate(c)
    \/ \E c \in AllPaths : UUnitReadNew(c)
    \/ \E c \in AllPaths : UUnitReturn(c)
    \/ \E c \in AllPaths : UUnitLockHeld(c)
    \/ \E p \in AllPaths : UFrameLock(p)
    \/ \E p \in AllPaths : UFrameLockHeld(p)
    \/ \E p \in AllPaths : UFrameDrain(p)
    \/ \E p \in AllPaths : UFrameRelock(p)
    \/ SaveUpdateParallel

\* a sequential index command, at most one change of a file, then one
\* concurrent update command
NextUpdate ==
    \/ last.op = "none" /\ IndexDirectories(<<RootA, RootB>>)
    \/ \E p \in FilePaths, c \in Contents, t \in 0..MaxClock :
          last.op = "index" /\ WriteFile(p, c, t)
    \/ \E paths \in UpdateRootLists : StartUpdateParallel(paths)
    \/ UpdateStep

SpecUpdate == InitUpdate /\ [][NextUpdate]_vars

\* every thread that can take a step eventually takes one
FairSpecUpdate == SpecUpdate /\ WF_vars(UpdateStep)

-----------------------------------------------------------------------------
(* The store on its own: one BOFIndex (the value behind the handle <<>>)   *)
(* to which the operations of `impl BOFIndex`, the two traversal functions *)
(* and save/load are applied in any order, while files and directories    *)
(* come and go.  `last` records the operation, its arguments, the store    *)
(* before it and what it returned.                                         *)

\* the number of operations and file changes applied to one store
MaxOps == 3

TheStore == shared[<<>>]

\* the keys handed to add_entry and update_entry
StoreKeys == { file_key(c, "f") : c \in Contents }

\* the paths handed to add_entry and update_entry
StorePaths == { <<"a", "f">>, <<"a", "d", "f">>, <<"b", "f">>, <<"a", "d">> }

LastCall(op, path, key, md, before, meta) ==
    [op |-> op, paths |-> <<path>>, loaded |-> before, saved |-> FALSE,
     metas |-> <<meta>>, key |-> key, md |-> md]

\* bof_index.add_entry(&path, key, &metadata, ..) with the stat record of an
\* existing file or directory
AddEntry(p, k) ==
    /\ steps < MaxOps
    /\ fs_metadata(p).ok /\ (is_file(fs[p]) \/ is_dir(fs[p]))
    /\ LET a == add_entry(TheStore, p, k, fs[p], <<>>) IN
       /\ shared' = [shared EXCEPT ![<<>>] = a.idx]
       /\ last' = LastCall("add_entry", p, k, fs[p], TheStore, a.meta)
    /\ steps' = steps + 1
    /\ UNCHANGED <<fs, now, ignore, disk, sess, lock, unit, frame>>

\* the MetaData value of an existing file or directory, as the concurrent
\* traversals build it before they call add_entry_meta
MetaDataOf(md) ==
    IF is_file(md) THEN FileMetaData(md) ELSE DirMetaData(<<>>, md.ino)

\* bof_index.add_entry_meta(&path, key, &metadata, ..)
AddEntryMeta(p, k) ==
    /\ steps < MaxOps
    /\ fs_metadata(p).ok /\ (is_file(fs[p]) \/ is_dir(fs[p]))
    /\ LET a == add_entry_meta(TheStore, p, k, MetaDataOf(fs[p]), <<>>) IN
       /\ shared' = [shared EXCEPT ![<<>>] = a.idx]
       /\ last' = LastCall("add_entry_meta", p, k, fs[p], TheStore, a.meta)
    /\ steps' = steps + 1
    /\ UNCHANGED <<fs, now, ignore, disk, sess, lock, unit, frame>>

\* bof_index.update_entry(&path, key, &metadata) with the stat record of an
\* existing file
UpdateEntry(p, k) ==
    /\ steps < MaxOps
    /\ fs_metadata(p).ok /\ is_file(fs[p])
    /\ shared' = [shared EXCEPT ![<<>>] = update_entry(TheStore, p, k, fs[p])]
    /\ last' = LastCall("update_entry", p, k, fs[p], TheStore, FileMetaData(fs[p]))
    /\ steps' = steps + 1
    /\ UNCHANGED <<fs, now, ignore, disk, sess, lock, unit, frame>>

\* index(&path, &mut bof_index, config)
IndexStore(r) ==
    /\ steps < MaxOps
    /\ LET res == index(r, TheStore) IN
       /\ shared' = [shared EXCEPT ![<<>>] = res.idx]
       /\ last' = LastCall("fn_index", r, generate_key(to_string(r)), fs[r],
                            TheStore, res.meta)
    /\ steps' = steps + 1
    /\ UNCHANGED <<fs, now, ignore, disk, sess, lock, unit, frame>>

\* update_index(&path, &mut bof_index, config)
UpdateStore(r) ==
    /\ steps < MaxOps
    /\ LET res == update_index(r, TheStore) IN
       /\ shared' = [shared EXCEPT ![<<>>] = res.idx]
       /\ last' = LastCall("fn_update", r, generate_key(to_string(r)), fs[r],
                            TheStore, res.meta)
    /\ steps' = steps + 1
    /\ UNCHANGED <<fs, now, ignore, disk, sess, lock, unit, frame>>

\* save_index(bof_index.clone(), config)
SaveStore ==
    /\ steps < MaxOps
    /\ disk' = save_index(TheStore)
    /\ last' = [LastNone EXCEPT !.op = "save", !.loaded = TheStore, !.saved = TRUE]
    /\ steps' = steps + 1
    /\ UNCHANGED <<fs, now, ignore, sess, shared, lock, unit, frame>>

\* bof_index = load_indices(&config.output_dir)?
LoadStore ==
    /\ steps < MaxOps
    /\ load_indices(disk).ok
    /\ shared' = [shared EXCEPT ![<<>>] = load_indices(disk).idx]
    /\ last' = [LastNone EXCEPT !.op = "load", !.loaded = TheStore]
    /\ steps' = steps + 1
    /\ UNCHANGED <<fs, now, ignore, disk, sess, lock, unit, frame>>

\* a directory is deleted with all that is in it
RemoveDir(d) ==
    /\ sess.phase = "idle"
    /\ steps < MaxOps
    /\ fs[d].kind = "dir"
    /\ fs' = [p \in AllPaths |-> IF IsPrefix(d, p) THEN Absent ELSE fs[p]]
    /\ last' = LastEnv
    /\ steps' = steps + 1
    /\ UNCHANGED <<now, ignore, disk>>
    /\ UNCHANGED parVars

InitStore ==
    /\ fs \in InitTrees
    /\ now = 0
    /\ ignore \in IgnoreSets
    /\ disk = NoFile
    /\ last = LastNone
    /\ steps = 0
    /\ sess = SessIdle
    /\ shared = (<<>> :> BOFIndexNew)
    /\ lock = <<>>
    /\ unit = [p \in AllPaths |-> UnitIdle]
    /\ frame = [p \in AllPaths |-> FrameIdle]

NextStore ==
    \/ \E p \in StorePaths, k \in StoreKeys : AddEntry(p, k)
    \/ \E p \in StorePaths, k \in StoreKeys : AddEntryMeta(p, k)
    \/ \E p \in StorePaths, k \in StoreKeys : UpdateEntry(p, k)
    \/ \E r \in {RootA, RootB} : IndexStore(r)
    \/ \E r \in {RootA, RootB} : UpdateStore(r)
    \/ SaveStore
    \/ LoadStore
    \/ \E c \in Contents, t \in 0..MaxClock :
          steps < MaxOps /\ WriteFile(<<"a", "f">>, c, t)
    \/ \E p \in FilePaths : steps < MaxOps /\ RemoveFile(p)
    \/ RemoveDir(<<"a", "d">>)

SpecStore == InitStore /\ [][NextStore]_vars

-----------------------------------------------------------------------------
(* The sequential index command run again and again on a tree that nobody  *)
(* changes, with the same roots and the same ignore set.                   *)

IndexAgain(paths) ==
    /\ last.op = "none" \/ (last.op = "index" /\ last.paths = paths)
    /\ IndexDirectories(paths)

NextRerun == \E paths \in RootLists : IndexAgain(paths)

SpecRerun == InitIndex /\ [][NextRerun]_vars

-----------------------------------------------------------------------------
(* Vocabulary of the properties.                                           *)

Range(f) == {f[i] : i \in DOMAIN f}

\* two sequences hold the same elements the same number of times
Count(sq, x) == Cardinality({i \in DOMAIN sq : sq[i] = x})
SameBag(sq, tq) ==
    /\ Len(sq) = Len(tq)
    /\ \A x \in Range(sq) : Count(sq, x) = Count(tq, x)

\* two inverse tables are equal up to the order of each parent list
SameInverse(inv, jnv) ==
    /\ DOMAIN inv = DOMAIN jnv
    /\ \A k \in DOMAIN inv : SameBag(inv[k], jnv[k])

\* a record with the order of sibling children forgotten, at every level
RECURSIVE Canon(_)
Canon(meta) ==
    IF meta.tag = "File" THEN meta
    ELSE [tag |-> "Directory", inode |-> meta.inode, n |-> Len(meta.data),
          data |-> {[name |-> meta.data[i].name, data |-> Canon(meta.data[i].data)] :
                        i \in DOMAIN meta.data}]

\* the record of directory p inside the record meta of directory r
NoRecord == [tag |-> "None"]
RECURSIVE RecordOf(_, _, _)
RecordOf(meta, r, p) ==
    IF meta.tag # "Directory" THEN NoRecord
    ELSE IF p = r THEN meta
    ELSE LET n == p[Len(r) + 1]
             hits == {i \in DOMAIN meta.data : meta.data[i].name = n}
         IN  IF hits = {} THEN NoRecord
             ELSE RecordOf(meta.data[CHOOSE i \in hits : TRUE].data, Append(r, n), p)

\* the sequential traversal of each root in turn, on one store
RECURSIVE IndexEach(_, _, _)
IndexEach(paths, i, idx) ==
    IF i > Len(paths) THEN idx
    ELSE IndexEach(paths, i + 1, index(paths[i], idx).idx)

\* the concurrent index command has run every root's closure to its end
ParIndexDone ==
    /\ sess.op = "index"
    /\ \A r \in Range(sess.paths) : unit[r].pc = "done"

\* the store that index.json holds
StoreNow == load_indices(disk).idx

\* p lies below the root r, and the walk from r down to p's directory meets
\* only directories that can be listed and are not ignored
Reached(p, r) ==
    /\ IsPrefix(r, p) /\ Len(p) > Len(r)
    /\ \A k \in Len(r)..(Len(p) - 1) :
          LET q == SubSeq(p, 1, k) IN
          /\ q \in AllPaths
          /\ fs[q].kind = "dir" /\ fs[q].statOk /\ fs[q].readable
          /\ q \notin ignore

\* p is a regular file that can be stat'ed and read
RegularReadable(p) == fs[p].kind = "file" /\ fs[p].statOk /\ fs[p].readable

\* p is in the ignore set or below a directory of the ignore set
UnderIgnored(p) == \E q \in ignore : IsPrefix(q, p)

\* the number of rows of an inverse table
RECURSIVE RowCount(_)
RowCount(inv) ==
    IF DOMAIN inv = {} THEN 0
    ELSE LET k == CHOOSE x \in DOMAIN inv : TRUE IN
         Len(inv[k]) + RowCount([x \in DOMAIN inv \ {k} |-> inv[x]])

\* the last command was a sequential update that saved its store
UpdateSaved == last.op = "update" /\ last.saved

-----------------------------------------------------------------------------
(* Properties of the sequential sessions.                                  *)

\* C1: after a sequential update session that saved, a regular file at any
\* depth below a root whose modification time differs from the stored one
\* has, in the saved store, the key of its current content and name and its
\* current metadata.
C1_ChangedFileRehashedAtAnyDepth ==
    UpdateSaved =>
        \A r \in Range(last.paths), p \in DOMAIN last.loaded.entries :
            ( /\ Reached(p, r) /\ RegularReadable(p)
              /\ last.loaded.entries[p].metadata.tag = "File"
              /\ last.loaded.entries[p].metadata.mtime # fs[p].mtime )
            => /\ p \in DOMAIN StoreNow.entries
               /\ StoreNow.entries[p].key = file_key(fs[p].content, file_name(p))
               /\ StoreNow.entries[p].metadata = FileMetaData(fs[p])

\* C2: after a sequential update session that saved, every readable regular
\* file reached below a non-ignored root that had no forward entry in the
\* loaded store, at any depth, has a forward entry and an inverse-table row
\* (its key listing its parent directory) in the saved store.
C2_NewFileAddedAtAnyDepth ==
    UpdateSaved =>
        \A r \in Range(last.paths), p \in AllPaths :
            ( /\ Reached(p, r) /\ RegularReadable(p)
              /\ r \notin ignore /\ p \notin ignore
              /\ p \notin DOMAIN last.loaded.entries )
            => /\ p \in DOMAIN StoreNow.entries
               /\ StoreNow.entries[p].key \in DOMAIN StoreNow.inverse_table
               /\ parent(p) \in Range(StoreNow.inverse_table[StoreNow.entries[p].key])

\* C3: an update session leaves every forward entry whose stored
\* modification time equals the file's current one exactly as it was, whatever
\* else changed; when the file at q is the only one whose modification time
\* changed, every forward entry other than q's is the same before and after.
C3_UnchangedEntriesUntouched ==
    last.op = "update" =>
        /\ \A p \in DOMAIN last.loaded.entries :
              ( /\ last.loaded.entries[p].metadata.tag = "File"
                /\ fs[p].kind # "absent"
                /\ last.loaded.entries[p].metadata.mtime = fs[p].mtime )
              => /\ p \in DOMAIN StoreNow.entries
                 /\ StoreNow.entries[p] = last.loaded.entries[p]
        /\ \A q \in DOMAIN last.loaded.entries :
              ( \A p \in DOMAIN last.loaded.entries \ {q} :
                    /\ fs[p].kind # "absent"
                    /\ last.loaded.entries[p].metadata.mtime = fs[p].mtime )
              => \A p \in DOMAIN last.loaded.entries \ {q} :
                    /\ p \in DOMAIN StoreNow.entries
                    /\ StoreNow.entries[p] = last.loaded.entries[p]

\* C3 witness: an update saved a store in which the entry of one file of a
\* root was rewritten and the entry of another file of that root, whose
\* content changed but not its modification time, was kept.
C3_Witness ==
    /\ UpdateSaved
    /\ \E p, q \in DOMAIN last.loaded.entries :
          /\ p # q /\ parent(p) \in Range(last.paths) /\ parent(q) = parent(p)
          /\ last.loaded.entries[p].metadata.mtime = fs[p].mtime
          /\ RegularReadable(p)
          /\ last.loaded.entries[p].key # file_key(fs[p].content, file_name(p))
          /\ StoreNow.entries[p] = last.loaded.entries[p]
          /\ StoreNow.entries[q] # last.loaded.entries[q]

\* C8: a session creates no forward entry and no inverse-table row for a
\* path of the ignore set or a descendant of one: the entries it added are
\* all outside the ignore set, and it added one row per such entry.
C8_NothingCreatedForIgnored ==
    (last.op \in {"index", "update"} /\ last.saved) =>
        LET created == DOMAIN StoreNow.entries \ DOMAIN last.loaded.entries IN
        /\ \A p \in created : ~UnderIgnored(p)
        /\ RowCount(StoreNow.inverse_table) - RowCount(last.loaded.inverse_table)
              = Cardinality({p \in created : ~UnderIgnored(p)})

\* C9: when one root of a command fails fatally (it does not exist or is not
\* a directory), the store is still saved and holds an entry for every
\* readable regular file directly in every other (non-ignored, listable)
\* root.
RootFails(r) == ~fs_metadata(r).ok \/ ~is_dir(fs_metadata(r).md)
C9_OtherRootsStillSaved ==
    (last.op \in {"index", "update"} /\ \E r \in Range(last.paths) : RootFails(r)) =>
        /\ last.op = "index" \/ disk.present => last.saved
        /\ \A r \in Range(last.paths), p \in AllPaths :
              ( /\ ~RootFails(r) /\ r \notin ignore /\ p \notin ignore
                /\ Reached(p, r) /\ Len(p) = Len(r) + 1
                /\ RegularReadable(p) )
              => p \in DOMAIN StoreNow.entries

-----------------------------------------------------------------------------
(* Properties of the index session, sequential and concurrent.             *)

\* C4: under every interleaving of the work units, the concurrent traversal
\* ends with the forward entries of the sequential traversal of the same
\* trees, the same inverse table up to the order of each parent list, and,
\* for each root, the same result and the same record tree up to the order
\* of sibling children.
C4_ParallelIndexEqualsSequential ==
    ParIndexDone =>
        LET par == shared[<<>>]
            seq == IndexEach(sess.paths, 1, BOFIndexNew)
        IN  /\ par.entries = seq.entries
            /\ SameInverse(par.inverse_table, seq.inverse_table)
            /\ \A r \in Range(sess.paths) :
                  LET sr == index(r, BOFIndexNew) IN
                  /\ frame[r].res.ok = sr.ok
                  /\ sr.ok => Canon(frame[r].res.meta) = Canon(sr.meta)

\* C4 witness: a concurrent traversal of /a ended with a file of a
\* subdirectory indexed and with the children of /a in another order than
\* the sequential traversal lists them.
C4_Witness ==
    /\ ParIndexDone
    /\ RootA \in Range(sess.paths)
    /\ <<"a", "d", "f">> \in DOMAIN shared[<<>>].entries
    /\ frame[RootA].res.ok
    /\ frame[RootA].res.meta # index(RootA, BOFIndexNew).meta

\* what the claim calls a failing child: its stat fails, or it is a regular
\* file whose content cannot be read, or it is neither file nor directory
BadChild(c) ==
    /\ fs[c].kind # "absent"
    /\ \/ ~fs[c].statOk
       \/ fs[c].kind = "file" /\ ~fs[c].readable
       \/ fs[c].kind \notin {"file", "dir"}

\* in the traversal of root r that left `store` and returned `meta`: each
\* entry met has its parent's record produced; a failing child has no
\* forward entry and no DirEntry; every readable file and every directory
\* next to it is there; and every inverse row belongs to a forward entry
FailuresSkipped(store, meta, r) ==
    /\ \A c \in AllPaths :
          (Reached(c, r) /\ fs[c].kind # "absent") =>
              LET rec == RecordOf(meta, r, parent(c))
                  named == {i \in DOMAIN rec.data : rec.data[i].name = file_name(c)}
              IN  /\ rec.tag = "Directory"
                  /\ BadChild(c) => c \notin DOMAIN store.entries /\ named = {}
                  /\ (RegularReadable(c) /\ c \notin ignore) =>
                        /\ c \in DOMAIN store.entries
                        /\ \E i \in named : rec.data[i].data = FileMetaData(fs[c])
                  /\ (fs[c].kind = "dir" /\ fs[c].statOk /\ fs[c].readable
                        /\ c \notin ignore) =>
                        \E i \in named : rec.data[i].data.tag = "Directory"
    /\ \A k \in DOMAIN store.inverse_table :
          Len(store.inverse_table[k])
              = Cardinality({p \in DOMAIN store.entries : store.entries[p].key = k})

\* C10: in an index traversal, sequential or concurrent, a child that fails
\* to stat, an unreadable regular file and a child that is neither file nor
\* directory leave no forward entry, no inverse row and no DirEntry, and the
\* siblings and the parent's record are still produced.
C10_ChildFailuresAreLocal ==
    /\ (last.op = "index" /\ last.saved) =>
          \A i \in DOMAIN last.paths :
              last.paths[i] \notin ignore =>
                  FailuresSkipped(StoreNow, last.metas[i], last.paths[i])
    /\ ParIndexDone =>
          \A r \in Range(sess.paths) :
              (frame[r].res.ok /\ r \notin ignore) =>
                  FailuresSkipped(shared[<<>>], frame[r].res.meta, r)

\* C10 witness: a concurrent traversal of /a is over; /a holds a failing
\* child that is not ignored, and the file next to it was indexed.
C10_Witness ==
    /\ ParIndexDone /\ sess.phase = "saved"
    /\ BadChild(<<"a", "g">>) /\ <<"a", "g">> \notin ignore
    /\ frame[RootA].res.ok
    /\ <<"a", "f">> \in DOMAIN StoreNow.entries

-----------------------------------------------------------------------------
(* The concurrent reconciler.                                              *)

\* C5: a concurrent update call on an existing directory that is not
\* ignored (the call has listed the directory and started its par_iter)
\* eventually returns a result, whether or not it has subdirectories
C5_ParallelUpdateReturns ==
    \A p \in AllPaths :
        (sess.op = "update" /\ frame[p].pc = "join") ~> (frame[p].pc = "ret")

\* the steps during which a closure stats, reads a file or runs (and waits
\* for) the recursive call, and the step at which a call stats and lists
\* its directory
BlockingUnitPcs == {"stat", "run", "read_upd", "read_new", "wait"}
BlockingFramePcs == {"enter"}

\* C6: in a concurrent index and in a concurrent update, whoever holds the
\* mutex of the shared store is not at a stat, at a content read or inside a
\* recursive descent
C6_NoBlockingUnderLock ==
    \A a \in DOMAIN lock :
        /\ \A c \in AllPaths :
              lock[a] = <<"unit", c>> => unit[c].pc \notin BlockingUnitPcs
        /\ \A p \in AllPaths :
              lock[a] = <<"frame", p>> => frame[p].pc \notin BlockingFramePcs

\* what the sequential update command does with the same loaded store on
\* the same file system
SequentialUpdate == update_roots(sess.paths, 1, sess.loaded, <<>>)

\* C7: a concurrent update command, started from a store and a file system
\* from which the sequential command saves, ends with index.json holding
\* the forward entries the sequential command saves
C7_ParallelUpdateSavesSequentialResult ==
    (sess.op = "update" /\ sess.phase = "run" /\ SequentialUpdate.ok)
        ~> (/\ sess.phase = "saved"
            /\ StoreNow.entries = SequentialUpdate.idx.entries)

-----------------------------------------------------------------------------
(* Properties of the store.                                                *)

\* the operations that work on the store in place
StoreOps == {"add_entry", "add_entry_meta", "update_entry", "fn_index", "fn_update"}

\* C11: no operation on a store (add_entry, update_entry, index, update)
\* takes a path out of the forward map: every path that had an entry before
\* the operation has one after it, whatever was deleted from the tree
C11_ForwardPathsNeverShrink ==
    last.op \in StoreOps =>
        DOMAIN last.loaded.entries \subseteq DOMAIN TheStore.entries

\* C11 witness: update_index ran on /a after the directory /a/d was deleted,
\* and the store still has the entry of the file that was in it
C11_Witness ==
    /\ last.op = "fn_update" /\ last.paths = <<RootA>>
    /\ fs[<<"a", "d">>].kind = "absent"
    /\ <<"a", "d", "f">> \in DOMAIN last.loaded.entries
    /\ <<"a", "d", "f">> \in DOMAIN TheStore.entries

\* C12: for every store the operations reach, the empty one included,
\* load_indices of what save_index writes has the same forward map (paths,
\* keys, metadata) and the same inverse table; and right after a save,
\* index.json loads to the store that was saved
C12_LoadAfterSaveIsIdentity ==
    /\ LET back == load_indices(save_index(TheStore)) IN
       /\ back.ok
       /\ back.idx.entries = TheStore.entries
       /\ back.idx.inverse_table = TheStore.inverse_table
    /\ last.op = "save" =>
          /\ load_indices(disk).ok
          /\ load_indices(disk).idx = last.loaded

\* C12 witness: a store with two forward entries and a key that lists two
\* parents has just been saved
C12_Witness ==
    /\ last.op = "save"
    /\ Cardinality(DOMAIN last.loaded.entries) >= 2
    /\ \E k \in DOMAIN last.loaded.inverse_table :
          Len(last.loaded.inverse_table[k]) >= 2
    /\ load_indices(disk).idx = last.loaded

-----------------------------------------------------------------------------
(* More properties of the index session.                                   *)

\* p is a readable regular file that a traversal of the roots gets to
Traversed(p, roots) ==
    /\ RegularReadable(p) /\ p \notin ignore
    /\ \E r \in Range(roots) : r \notin ignore /\ Reached(p, r)

\* in the store an index session over `roots` left: two files with the same
\* content and the same base name have the same key, whose inverse list
\* holds the parent of each; with different base names the keys differ
SameContentRule(store, roots) ==
    \A p, q \in AllPaths :
        ( /\ p # q /\ Traversed(p, roots) /\ Traversed(q, roots)
          /\ fs[p].content = fs[q].content )
        => /\ p \in DOMAIN store.entries /\ q \in DOMAIN store.entries
           /\ IF file_name(p) = file_name(q)
              THEN /\ store.entries[p].key = store.entries[q].key
                   /\ store.entries[p].key \in DOMAIN store.inverse_table
                   /\ {parent(p), parent(q)}
                         \subseteq Range(store.inverse_table[store.entries[p].key])
              ELSE store.entries[p].key # store.entries[q].key

\* C13: after an index session, sequential or concurrent, over roots and
\* subdirectories, files of different directories with identical content
\* and identical base name share one key that lists both parents, and files
\* with identical content and different base names have different keys
C13_SameContentSameNameSameKey ==
    /\ (last.op = "index" /\ last.saved) => SameContentRule(StoreNow, last.paths)
    /\ ParIndexDone => SameContentRule(shared[<<>>], sess.paths)

\* C13 witness: a concurrent session over /a and /b is saved; /a/f, /b/f
\* and /a/d/f hold the same content and share a key that lists /a, /b and
\* /a/d, and /a/g with that content has another key
C13_Witness ==
    /\ ParIndexDone /\ sess.phase = "saved" /\ sess.paths = <<RootA, RootB>>
    /\ {<<"a", "f">>, <<"b", "f">>, <<"a", "d", "f">>, <<"a", "g">>}
          \subseteq DOMAIN StoreNow.entries
    /\ fs[<<"a", "d", "f">>].content = fs[<<"a", "f">>].content
    /\ fs[<<"a", "g">>].content = fs[<<"a", "f">>].content
    /\ StoreNow.entries[<<"a", "f">>].key = StoreNow.entries[<<"b", "f">>].key
    /\ {RootA, RootB, <<"a", "d">>}
          \subseteq Range(StoreNow.inverse_table[StoreNow.entries[<<"a", "f">>].key])
    /\ StoreNow.entries[<<"a", "g">>].key # StoreNow.entries[<<"a", "f">>].key

\* r is a root that the session traverses: an existing directory that can
\* be listed and is not ignored
TraversedRoot(r) ==
    /\ fs_metadata(r).ok /\ is_dir(fs[r]) /\ fs[r].readable
    /\ r \notin ignore

\* in the store an index session over `roots` left: each traversed root has
\* a forward entry with a Directory record, and every other forward entry
\* is the File entry of a regular file
RootAndFilesRule(store, roots) ==
    /\ \A r \in Range(roots) :
          TraversedRoot(r) =>
              /\ r \in DOMAIN store.entries
              /\ store.entries[r].metadata.tag = "Directory"
    /\ \A p \in DOMAIN store.entries :
          p \notin Range(roots) =>
              /\ store.entries[p].metadata.tag = "File"
              /\ fs[p].kind = "file"

\* C14: after an index session, sequential or concurrent, the forward map
\* holds a record for each scan root, left by the root's own add_entry
\* call, and apart from the roots only regular files have forward entries
C14_ForwardEntriesForFilesAndRoot ==
    /\ (last.op = "index" /\ last.saved) => RootAndFilesRule(StoreNow, last.paths)
    /\ (ParIndexDone /\ sess.phase = "saved") =>
          RootAndFilesRule(StoreNow, sess.paths)

-----------------------------------------------------------------------------
(* The two operations of the store.                                        *)

\* the list a key has in an inverse table (empty when the key is not there)
RowsOf(inv, k) == IF k \in DOMAIN inv THEN inv[k] ELSE <<>>

\* C15: add_entry (and add_entry_meta) on a regular file at p with key k
\* leaves the forward entry (k, p, metadata of the file) at p, replacing an
\* earlier one, leaves every other forward entry as it was, and appends
\* parent(p) once to the list of k whether or not the list already has it,
\* other lists unchanged; on a directory it changes nothing in the store
C15_AddEntry ==
    last.op \in {"add_entry", "add_entry_meta"} =>
        LET p == last.paths[1]
            k == last.key
            pre == last.loaded
            post == TheStore
        IN  IF is_file(last.md)
            THEN /\ DOMAIN post.entries = DOMAIN pre.entries \cup {p}
                 /\ post.entries[p] = BOFEntry(k, p, FileMetaData(last.md))
                 /\ \A q \in DOMAIN pre.entries \ {p} : post.entries[q] = pre.entries[q]
                 /\ DOMAIN post.inverse_table = DOMAIN pre.inverse_table \cup {k}
                 /\ post.inverse_table[k] = Append(RowsOf(pre.inverse_table, k), parent(p))
                 /\ \A j \in DOMAIN pre.inverse_table \ {k} :
                       post.inverse_table[j] = pre.inverse_table[j]
                 /\ last.metas[1] = FileMetaData(last.md)
            ELSE /\ post = pre
                 /\ last.metas[1].tag = "Directory"

\* C15 witness: the third add_entry for the same file and key: one forward
\* entry, three copies of the parent in the key's list
C15_Witness ==
    /\ last.op = "add_entry" /\ is_file(last.md)
    /\ last.paths[1] \in DOMAIN last.loaded.entries
    /\ Cardinality(DOMAIN TheStore.entries) = 1
    /\ Count(TheStore.inverse_table[last.key], parent(last.paths[1])) = 3

\* C16: update_entry(path, key, metadata) puts the key and the metadata in
\* the forward entry at path when there is one and leaves every other
\* forward entry as it was; when there is none the whole store is as it
\* was; and the same call made again changes nothing more
C16_UpdateEntry ==
    last.op = "update_entry" =>
        LET p == last.paths[1]
            k == last.key
            pre == last.loaded
            post == TheStore
        IN  /\ IF p \in DOMAIN pre.entries
               THEN /\ DOMAIN post.entries = DOMAIN pre.entries
                    /\ post.entries[p] = BOFEntry(k, p, FileMetaData(last.md))
                    /\ \A q \in DOMAIN pre.entries \ {p} :
                          post.entries[q] = pre.entries[q]
               ELSE post = pre
            /\ update_entry(post, p, k, last.md) = post

\* C16 witness: update_entry gave the entry of one file a new key while the
\* store held the entry of another file
C16_Witness ==
    /\ last.op = "update_entry"
    /\ last.paths[1] \in DOMAIN last.loaded.entries
    /\ last.loaded.entries[last.paths[1]].key # last.key
    /\ TheStore.entries[last.paths[1]].key = last.key
    /\ Cardinality(DOMAIN last.loaded.entries) >= 2

-----------------------------------------------------------------------------
(* The barrier of the concurrent traversal.                                *)

\* the entries of directory p that the call on p gave to its par_iter
ListedChildren(p) == Range(read_dir(p).entries)

\* the closure for c ended with something queued for the parent: c is a
\* readable regular file, or a directory whose own call returned a record
ProcessedChild(c) ==
    /\ fs[c].statOk /\ c \notin ignore
    /\ \/ RegularReadable(c)
       \/ fs[c].kind = "dir" /\ frame[c].pc = "ret" /\ frame[c].res.ok

\* what the closure for c queued as its DirEntry
ChildRecord(c) ==
    DirEntry(file_name(c),
             IF fs[c].kind = "dir" THEN frame[c].res.meta ELSE FileMetaData(fs[c]))

\* C17: in the concurrent index traversal a call takes the lock for its
\* drain and add_entry, and returns its record, only when the closure of
\* every entry of its directory has ended (a subdirectory's call included);
\* the record it returns holds the DirEntry of every processed child, no
\* more, and the queue is empty
C17_AddEntryAfterAllChildren ==
    sess.op = "index" =>
        \A p \in AllPaths :
            /\ frame[p].pc = "drain" =>
                  \A c \in ListedChildren(p) :
                      /\ unit[c].pc = "done"
                      /\ fs[c].kind = "dir" /\ fs[c].statOk /\ c \notin ignore
                            => frame[c].pc = "ret"
            /\ (frame[p].pc = "ret" /\ frame[p].res.ok /\ p \notin ignore) =>
                  /\ \A c \in ListedChildren(p) : unit[c].pc = "done"
                  /\ frame[p].queue = <<>>
                  /\ Range(frame[p].res.meta.data)
                        = {ChildRecord(c) : c \in {x \in ListedChildren(p) : ProcessedChild(x)}}
                  /\ Len(frame[p].res.meta.data)
                        = Cardinality({x \in ListedChildren(p) : ProcessedChild(x)})

\* C17 witness: the call on /a returned a record with its three children,
\* the subdirectory's record holding the file in it
C17_Witness ==
    /\ sess.op = "index"
    /\ frame[RootA].pc = "ret" /\ frame[RootA].res.ok
    /\ Len(frame[RootA].res.meta.data) = 3
    /\ frame[<<"a", "d">>].pc = "ret"
    /\ Len(frame[<<"a", "d">>].res.meta.data) = 1
    /\ ChildRecord(<<"a", "d">>) \in Range(frame[RootA].res.meta.data)

-----------------------------------------------------------------------------
(* The lock of the shared store in the concurrent sessions.                *)

\* the calls and closures that are between taking the mutex of store a and
\* dropping its guard
InCritical(a) ==
    { <<"frame", p>> : p \in {x \in AllPaths :
          frame[x].pc \in {"drain", "relock"} /\ ArcOf(x) = a} }
    \cup
    { <<"unit", c>> : c \in {x \in AllPaths :
          /\ sess.op = "update" /\ ~IsRoot(x)
          /\ unit[x].pc \in {"read_upd", "read_new", "wait"}
          /\ ArcOf(x) = a} }

\* whoever is between lock and unlock is the one holder of the mutex
MutualExclusion ==
    sess.op \in {"index", "update"} =>
        \A a \in DOMAIN lock : InCritical(a) \subseteq {lock[a]}

\* a step that changes a shared store is taken by the holder of its mutex
WritesUnderLock ==
    sess.op \in {"index", "update"} =>
        \A a \in DOMAIN shared :
            (a \in DOMAIN shared' /\ shared'[a] # shared[a]) =>
                lock[a] # Free /\ lock[a] \in InCritical(a)

\* the concurrent update applied an add_entry or update_entry for c to its
\* shared store
Applied(c) ==
    /\ sess.op = "update" /\ sess.phase = "run"
    /\ \E a \in DOMAIN shared :
          /\ c \in DOMAIN shared[a].entries
          /\ c \in DOMAIN sess.loaded.entries
                => shared[a].entries[c] # sess.loaded.entries[c]

\* the store the command saved has for c what a worker applied
Kept(c) ==
    /\ sess.phase = "saved"
    /\ c \in DOMAIN StoreNow.entries
    /\ \E a \in DOMAIN shared :
          /\ c \in DOMAIN shared[a].entries
          /\ StoreNow.entries[c] = shared[a].entries[c]

\* C18: in a concurrent session every change of the shared store is made
\* by a worker that holds the lock, at most one worker is between lock and
\* unlock at a time, and no result a worker applied is lost: it is in the
\* store the session saves
C18_LockedWritesNothingLost ==
    /\ []MutualExclusion
    /\ [][WritesUnderLock]_vars
    /\ \A c \in AllPaths : Applied(c) ~> Kept(c)

\* the two halves of C18 that speak of the lock alone
C18_LockDiscipline == []MutualExclusion /\ [][WritesUnderLock]_vars

-----------------------------------------------------------------------------
(* The sequential index session run twice.                                 *)

\* the (path, key) pairs of the forward map
PathKeys(store) == { <<p, store.entries[p].key>> : p \in DOMAIN store.entries }

-----------------------------------------------------------------------------
(* Ignored subdirectories in the index session.                            *)

\* in the record `meta` returned for root r: each ignored subdirectory that
\* the traversal met is a child of its parent's record, as a Directory with
\* its inode and no children
IgnoredChildRule(meta, r) ==
    \A c \in AllPaths :
        (Reached(c, r) /\ fs[c].kind = "dir" /\ fs[c].statOk /\ c \in ignore) =>
            LET rec == RecordOf(meta, r, parent(c)) IN
            /\ rec.tag = "Directory"
            /\ \E i \in DOMAIN rec.data :
                  rec.data[i] = DirEntry(file_name(c), DirMetaData(<<>>, fs[c].ino))

\* C20: after an index traversal, sequential or concurrent, of a root that
\* is not ignored, the record of a directory has a DirEntry for each ignored
\* subdirectory among its children: a Directory record with the inode and
\* an empty children list
C20_IgnoredSubdirectoryKept ==
    /\ (last.op = "index" /\ last.saved) =>
          \A i \in DOMAIN last.paths :
              last.paths[i] \notin ignore =>
                  IgnoredChildRule(last.metas[i], last.paths[i])
    /\ ParIndexDone =>
          \A r \in Range(sess.paths) :
              (frame[r].res.ok /\ r \notin ignore) =>
                  IgnoredChildRule(frame[r].res.meta, r)

-----------------------------------------------------------------------------
(* The reconciler on an index.json that holds a Directory record in its     *)
(* forward entries.  add_entry and add_entry_meta never write one, so the   *)
(* file comes from elsewhere; load_indices takes it as it is.               *)

\* a forward entry whose metadata is MetaData::Directory
DirRecordEntry(p) ==
    BOFEntry(generate_key(to_string(p)), p, DirMetaData(<<>>, InodeOf(p)))

\* a store with the Directory record of a/d put into its forward entries
WithDirRecord(b) ==
    [b EXCEPT !.entries = MapInsert(b.entries, <<"a", "d">>,
                                    DirRecordEntry(<<"a", "d">>))]

\* the stores index.json holds at the start: only the Directory record of
\* a/d, the entries of an index session of a together with it, or those
\* entries alone
ConflictStores ==
    { WithDirRecord(BOFIndexNew),
      WithDirRecord(index(RootA, BOFIndexNew).idx),
      index(RootA, BOFIndexNew).idx }

InitConflict ==
    /\ fs \in InitTrees
    /\ now = 0
    /\ ignore \in UpdateIgnoreSets
    /\ disk \in {save_index(s) : s \in ConflictStores}
    /\ last = LastNone
    /\ steps = 0
    /\ ParIdle

\* at most one change of a file, then one update command, sequential or
\* concurrent
NextConflict ==
    \/ \E p \in FilePaths, c \in Contents, t \in 0..MaxClock :
          last.op = "none" /\ WriteFile(p, c, t)
    \/ \E paths \in UpdateRootLists :
          last.op \in {"none", "env"} /\ UpdateDirectories(paths)
    \/ \E paths \in UpdateRootLists :
          last.op \in {"none", "env"} /\ StartUpdateParallel(paths)
    \/ UpdateStep

SpecConflict == InitConflict /\ [][NextConflict]_vars

\* the store holds a Directory record at c
HasDirRecord(store, c) ==
    c \in DOMAIN store.entries /\ store.entries[c].metadata.tag = "Directory"

\* the forward entries the update added or replaced
Touched(before, after) ==
    { p \in DOMAIN after.entries :
        p \notin DOMAIN before.entries \/ after.entries[p] # before.entries[p] }

\* the sequential update of root r met the child c, whose stored entry is a
\* Directory record: c's entry and everything below c are as loaded, the
\* record r's call returned has no child c inside, every row the inverse
\* table gained belongs to a file entry that was added, and the other
\* children of c's directory were reconciled
SkippedSequential(c, r, meta) ==
    /\ StoreNow.entries[c] = last.loaded.entries[c]
    /\ \A p \in Touched(last.loaded, StoreNow) : ~IsPrefix(c, p)
    /\ RecordOf(meta, r, c) = NoRecord
    /\ LET rec == RecordOf(meta, r, parent(c)) IN
       rec # NoRecord => \A i \in DOMAIN rec.data : rec.data[i].name # file_name(c)
    /\ RowCount(StoreNow.inverse_table)
         = RowCount(last.loaded.inverse_table)
             + Cardinality(DOMAIN StoreNow.entries \ DOMAIN last.loaded.entries)
    /\ \A s \in ListedChildren(parent(c)) :
          s # c /\ RegularReadable(s) =>
             /\ s \in DOMAIN StoreNow.entries
             /\ \/ /\ s \in DOMAIN last.loaded.entries
                   /\ last.loaded.entries[s].metadata.tag = "File"
                   /\ ~mtime_changed(last.loaded.entries[s].metadata, fs[s])
                   /\ StoreNow.entries[s] = last.loaded.entries[s]
                \/ StoreNow.entries[s] =
                      BOFEntry(hash_file(s, file_name(s)).key, s, FileMetaData(fs[s]))

\* the concurrent update: the unit of c never reads, never calls
\* update_index_parallel and queues nothing, c's entry stays as loaded in
\* every handle, and once the par_iter of c's directory is over the other
\* children have been through their closure (a new file left its entry in
\* the queue or, after the drain, in the store); the queue holds tagged
\* items before the drain and the directory's DirEntry list after it
SkippedParallel(c) ==
    /\ unit[c].pc \in {"idle", "stat", "lock", "done"}
    /\ frame[c].pc = "idle"
    /\ \A a \in DOMAIN shared : shared[a].entries[c] = sess.loaded.entries[c]
    /\ \A i \in DOMAIN frame[parent(c)].queue :
          LET it == frame[parent(c)].queue[i] IN
          IF "tag" \in DOMAIN it
          THEN /\ it.tag = "DirEntry" => it.entry.name # file_name(c)
               /\ it.tag = "BOFEntry" => it.entry.path # c
          ELSE it.name # file_name(c)
    /\ frame[parent(c)].pc \in {"drain", "relock", "stuck", "ret"} =>
          \A s \in ListedChildren(parent(c)) :
             /\ unit[s].pc = "done"
             /\ s # c /\ RegularReadable(s) /\ s \notin DOMAIN sess.loaded.entries =>
                   LET e == BOFEntry(hash_file(s, file_name(s)).key, s, FileMetaData(fs[s]))
                   IN  \/ \E i \in DOMAIN frame[parent(c)].queue :
                             frame[parent(c)].queue[i] = QBOFEntry(e)
                       \/ /\ s \in DOMAIN shared[ArcOf(s)].entries
                          /\ shared[ArcOf(s)].entries[s] = e

\* C21: in an update traversal a child whose stored forward entry is a
\* Directory record is skipped: no forward entry is replaced or added for
\* it, no inverse-table row is appended, the child is not descended into,
\* and its siblings are still processed -- in the sequential update (seen
\* after the command) and in the concurrent one (seen at every step).
C21_DirectoryRecordChildSkipped ==
    /\ UpdateSaved =>
          \A i \in DOMAIN last.paths : \A c \in AllPaths :
             /\ HasDirRecord(last.loaded, c)
             /\ Reached(c, last.paths[i])
             /\ IsListed(c) /\ fs[c].statOk
             => SkippedSequential(c, last.paths[i], last.metas[i])
    /\ sess.op = "update" =>
          \A c \in AllPaths :
             HasDirRecord(sess.loaded, c) /\ ~IsRoot(c) => SkippedParallel(c)

\* a sequential update skipped a/d while a/d/f is a file the store does not
\* know and the sibling a/f was added
C21_Witness ==
    /\ UpdateSaved
    /\ HasDirRecord(last.loaded, <<"a", "d">>)
    /\ Reached(<<"a", "d">>, RootA)
    /\ RegularReadable(<<"a", "d", "f">>)
    /\ <<"a", "d", "f">> \notin DOMAIN StoreNow.entries
    /\ <<"a", "f">> \notin DOMAIN last.loaded.entries
    /\ <<"a", "f">> \in DOMAIN StoreNow.entries

\* the concurrent update skipped a/d and queued the new sibling a/f
C21_WitnessParallel ==
    /\ sess.op = "update"
    /\ HasDirRecord(sess.loaded, <<"a", "d">>)
    /\ unit[<<"a", "d">>].pc = "done"
    /\ RegularReadable(<<"a", "d", "f">>)
    /\ frame[RootA].pc = "drain"
    /\ \E i \in DOMAIN frame[RootA].queue :
          /\ frame[RootA].queue[i].tag = "BOFEntry"
          /\ frame[RootA].queue[i].entry.path = <<"a", "f">>

-----------------------------------------------------------------------------
(* Order in the sequential index session.                                  *)

\* the closure of index ends with a DirEntry pushed for c
PushedChild(c) ==
    /\ fs[c].statOk /\ c \notin ignore
    /\ \/ RegularReadable(c)
       \/ fs[c].kind = "dir" /\ fs[c].readable

\* the names of the pushed children of directory p, as read_dir lists them
PushedNames(p) ==
    LET cs == SelectSeq(read_dir(p).entries, PushedChild)
    IN  [j \in 1..Len(cs) |-> file_name(cs[j])]

\* the names in the children list of a Directory record
NamesOf(rec) == [j \in 1..Len(rec.data) |-> rec.data[j].name]

\* the files hashed depth-first from the directory entries[i..] on
RECURSIVE HashedBelow(_, _)
HashedBelow(entries, i) ==
    IF i > Len(entries) THEN <<>>
    ELSE LET c == entries[i]
             rest == HashedBelow(entries, i + 1)
         IN  IF ~PushedChild(c) THEN rest
             ELSE IF fs[c].kind = "file" THEN <<c>> \o rest
             ELSE HashedBelow(read_dir(c).entries, 1) \o rest

\* the files hashed by the session over the roots paths[i..], in order
RECURSIVE HashedBy(_, _)
HashedBy(paths, i) ==
    IF i > Len(paths) THEN <<>>
    ELSE (IF paths[i] \in ignore THEN <<>>
          ELSE HashedBelow(read_dir(paths[i]).entries, 1))
         \o HashedBy(paths, i + 1)

KeyOfFile(c) == hash_file(c, file_name(c)).key

\* the parents of the files of `hashed` whose key is k, in that order
ParentsInOrder(hashed, k) ==
    LET cs == SelectSeq(hashed, LAMBDA c : KeyOfFile(c) = k)
    IN  [j \in 1..Len(cs) |-> parent(cs[j])]

\* C22: after a sequential index session that saved, the children list of
\* every Directory record names the children that were pushed in the order
\* read_dir returned them, and every inverse-table list holds the parents
\* of the files with that key in the order the depth-first walk hashed
\* them.
C22_EnumerationOrderKept ==
    last.op = "index" /\ last.saved =>
        /\ \A i \in DOMAIN last.paths : \A p \in AllPaths :
              IsPrefix(last.paths[i], p) /\ p \notin ignore =>
                 LET rec == RecordOf(last.metas[i], last.paths[i], p) IN
                 rec # NoRecord => NamesOf(rec) = PushedNames(p)
        /\ LET hashed == HashedBy(last.paths, 1) IN
           /\ DOMAIN StoreNow.inverse_table = {KeyOfFile(c) : c \in Range(hashed)}
           /\ \A k \in DOMAIN StoreNow.inverse_table :
                 StoreNow.inverse_table[k] = ParentsInOrder(hashed, k)

\* a session over a and b: a's record lists three children as g, d, f, and
\* one key was hashed in a/d, then in a, then in b
C22_Witness ==
    /\ last.op = "index" /\ last.saved
    /\ last.paths = <<RootA, RootB>>
    /\ NamesOf(last.metas[1]) = <<"g", "d", "f">>
    /\ \E k \in DOMAIN StoreNow.inverse_table :
          StoreNow.inverse_table[k] = << <<"a", "d">>, RootA, RootB >>

-----------------------------------------------------------------------------
(* The two tables of the store against each other.                         *)

\* the inverse table has a row that names the parent of p under p's key
HasInverseRow(store, p) ==
    LET k == store.entries[p].key IN
    /\ k \in DOMAIN store.inverse_table
    /\ \E i \in DOMAIN store.inverse_table[k] :
          store.inverse_table[k][i] = parent(p)

\* C23: after any sequence of sequential index and update sessions from the
\* empty store, every forward entry (path p, key k) of index.json has
\* parent(p) in the inverse-table list of k; so after an update replaced a
\* changed file's key, the list of the new key names the file's directory.
C23_ForwardEntriesHaveInverseRows ==
    \A p \in DOMAIN StoreNow.entries : HasInverseRow(StoreNow, p)

-----------------------------------------------------------------------------
(* The sequential update command run again and again, over the roots that  *)
(* were indexed, on a tree that nobody changes.                            *)

\* the one index session
IndexOnce(paths) ==
    /\ last.op = "none"
    /\ IndexDirectories(paths)

\* one more update session over the same roots
UpdateAgain(paths) ==
    /\ last.op \in {"index", "update"}
    /\ last.paths = paths
    /\ UpdateDirectories(paths)

NextReupdate ==
    \/ \E paths \in RootLists : IndexOnce(paths)
    \/ \E paths \in RootLists : UpdateAgain(paths)

SpecReupdate == InitIndex /\ [][NextReupdate]_vars

\* C24: a sequential update session on a tree that has not changed since it
\* was indexed (over the same roots) saves the forward map and the inverse
\* table it loaded, at the first update and at every later one.
C24_UpdateOfUnchangedTreeIsIdentity ==
    UpdateSaved =>
        /\ StoreNow.entries = last.loaded.entries
        /\ StoreNow.inverse_table = last.loaded.inverse_table

\* the same, for sessions whose ignore set names no regular file
C24_WithoutIgnoredFiles ==
    (\A q \in ignore : fs[q].kind # "file") => C24_UpdateOfUnchangedTreeIsIdentity

\* an update after an update, over a and b, with a store of at least three
\* entries
C24_RepeatedUpdate ==
    /\ UpdateSaved
    /\ steps >= 3
    /\ last.paths = <<RootA, RootB>>
    /\ Cardinality(DOMAIN StoreNow.entries) >= 3

=============================================================================
